---- MODULE Spec2Model ----
(***************************************************************************)
(* A model of three parts of the moore compiler:                           *)
(*  - the abstract type system of the VHDL front end                       *)
(*    (src/vhdl/ty2/types.rs): the concrete type kinds, the AnyType tagged *)
(*    view over them, the classification predicates of the Type trait and  *)
(*    the directed Range<T>;                                               *)
(*  - the LLHD dialect helpers of the CIRCT binding                        *)
(*    (src/circt/src/llhd.rs): EntityLikeBuilder and the EntityLike ops;   *)
(*  - the port mapping of a SystemVerilog instantiation                    *)
(*    (src/svlog/port_mapping.rs).                                         *)
(*                                                                         *)
(* Concrete type values live in an arena owned by the elaborator; a        *)
(* reference `&'t T` is the address (index) of the value in the arena.     *)
(***************************************************************************)
EXTENDS Integers, Sequences, FiniteSets, TLC

VARIABLES
    arena,      \* the concrete type values constructed so far, by address
    view,       \* the AnyType the caller currently holds
    result,     \* the outcome of the last query on the arena or the view
    pc,         \* "running", or "panicked" once an expect() has failed
    ra,         \* range A, a Range<T>
    rb,         \* range B, a Range<T> over the same T as A
    rres,       \* the outcome of the last call on the ranges
    unitVec,    \* the PhysicalUnit values collected for a physical type
    phys,       \* the PhysicalType built from them
    pres,       \* the outcome of the last call on the physical type
    builder,    \* the EntityLikeBuilder
    calls,      \* the add_input and add_output calls made on the builder
    op,         \* the EntityOp or ProcessOp built last
    lres,       \* the outcome of the last call on the op or on an LLHD type
    pm          \* the activation of port_mapping: arguments, locals, result

typeVars == <<arena, view, result, pc>>
rangeVars == <<ra, rb, rres>>
physVars == <<unitVec, phys, pres>>
llhdVars == <<builder, calls, op, lres>>
portVars == <<pm>>
vars == <<arena, view, result, pc, ra, rb, rres, unitVec, phys, pres,
          builder, calls, op, lres, pm>>

\* what the actions of one part leave alone
exceptTypes == <<rangeVars, physVars, llhdVars, portVars>>
exceptRange == <<typeVars, physVars, llhdVars, portVars>>
exceptPhys == <<typeVars, rangeVars, llhdVars, portVars>>
exceptLlhd == <<typeVars, rangeVars, physVars, portVars>>
exceptPorts == <<typeVars, rangeVars, physVars, llhdVars>>

-----------------------------------------------------------------------------
(* Bounds of the model *)

\* the number of type values the arena holds
MaxTypes == 2
\* the number of literals of an enumeration
MaxLits == 2
\* integer bounds of a range are drawn from -MaxBound .. MaxBound
MaxBound == 2
\* f64 bounds of a range are drawn from -MaxHalves/2 .. MaxHalves/2 in steps of 0.5
MaxHalves == 2
\* the number of units of a physical type, and the greatest unit index given
MaxUnits == 2
\* the number of add_input and add_output calls on a builder, and the
\* greatest port index asked of an op
MaxPorts == 3
\* the number of external ports of an instantiated node
MaxExtPorts == 3
\* the number of positional assignments of an instantiation
MaxPos == 2
\* the number of named assignments of an instantiation
MaxNamed == 2

-----------------------------------------------------------------------------
(* RangeDir and Range<T> *)

\* enum RangeDir { To, Downto }
RangeDir == {"To", "Downto"}

\* T = BigInt: arbitrary precision, modelled by Int.
\* T = f64: a finite value x is the record F64(2*x), so that halves are
\* representable; all sums and differences of the modelled magnitudes are
\* exact in f64, so the arithmetic on `twice` is the f64 arithmetic. NaN is a
\* value of its own: it absorbs arithmetic and fails every comparison.
Domains == {"BigInt", "f64"}

F64(t) == [nan |-> FALSE, twice |-> t]

NaN == [nan |-> TRUE, twice |-> 0]

\* <T as One>::one(): 1 for BigInt, 1.0 for f64
One(dom) == IF dom = "BigInt" THEN 1 ELSE F64(2)

\* &T + &T
Add(dom, x, y) ==
    IF dom = "BigInt" THEN x + y
    ELSE IF x.nan \/ y.nan THEN NaN ELSE F64(x.twice + y.twice)

\* &T - &T
Sub(dom, x, y) ==
    IF dom = "BigInt" THEN x - y
    ELSE IF x.nan \/ y.nan THEN NaN ELSE F64(x.twice - y.twice)

\* PartialOrd::ge
Ge(dom, x, y) ==
    IF dom = "BigInt" THEN x >= y
    ELSE IF x.nan \/ y.nan THEN FALSE ELSE x.twice >= y.twice

\* PartialOrd::le
Le(dom, x, y) ==
    IF dom = "BigInt" THEN x <= y
    ELSE IF x.nan \/ y.nan THEN FALSE ELSE x.twice <= y.twice

\* struct Range<T> { dir, left, right }; dom records which T it is over
MkRange(dom, dir, left, right) ==
    [dom |-> dom, dir |-> dir, left |-> left, right |-> right]

with_left_right(dom, dir, left, right) == MkRange(dom, dir, left, right)

\* with_lower_upper that takes lower for left whatever the direction
with_lower_upper_noswap(dom, dir, lower, upper) == MkRange(dom, dir, lower, upper)

with_lower_upper(dom, dir, lower, upper) ==
    IF dir = "To" THEN MkRange(dom, dir, lower, upper)
                  ELSE MkRange(dom, dir, upper, lower)

ascending(dom, left, right) == MkRange(dom, "To", left, right)

descending(dom, left, right) == MkRange(dom, "Downto", left, right)

dir(r) == r.dir

left(r) == r.left

right(r) == r.right

lower(r) == IF r.dir = "To" THEN r.left ELSE r.right

upper(r) == IF r.dir = "To" THEN r.right ELSE r.left

\* is_null comparing left with right, whatever the direction
is_null_leftright(r) == Ge(r.dom, r.left, r.right)

is_null(r) == Ge(r.dom, lower(r), upper(r))

\* len taking right for upper and left for lower, whatever the direction
len_leftright(r) == Sub(r.dom, Add(r.dom, r.right, One(r.dom)), r.left)

\* len without the + 1
len_exclusive(r) == Sub(r.dom, upper(r), lower(r))

len(r) == Sub(r.dom, Add(r.dom, upper(r), One(r.dom)), lower(r))

\* has_subrange comparing left with left and right with right
has_subrange_leftright(r, subrange) ==
    /\ Le(r.dom, r.left, subrange.left)
    /\ Ge(r.dom, r.right, subrange.right)

has_subrange(r, subrange) ==
    /\ Le(r.dom, lower(r), lower(subrange))
    /\ Ge(r.dom, upper(r), upper(subrange))

\* impl Display for RangeDir
RangeDir_fmt(d) == IF d = "To" THEN "to" ELSE "downto"

\* <T as Display>::fmt: a BigInt in decimal; an f64 as the shortest decimal
\* that reads back, without ".0" for an integral value
T_fmt(dom, x) ==
    IF dom = "BigInt" THEN ToString(x)
    ELSE IF x.nan THEN "NaN"
    ELSE IF x.twice % 2 = 0 THEN ToString(x.twice \div 2)
    ELSE IF x.twice > 0 THEN ToString(x.twice \div 2) \o ".5"
    ELSE "-" \o ToString((0 - x.twice) \div 2) \o ".5"

\* Display for Range writing the lower bound first and the upper bound last
Range_fmt_lowerupper(r) ==
    T_fmt(r.dom, lower(r)) \o " " \o RangeDir_fmt(r.dir) \o " " \o T_fmt(r.dom, upper(r))

\* impl Display for Range: "{} {} {}" of left, dir, right
Range_fmt(r) ==
    T_fmt(r.dom, r.left) \o " " \o RangeDir_fmt(r.dir) \o " " \o T_fmt(r.dom, r.right)

\* the values a bound can take
BoundValues(dom) ==
    IF dom = "BigInt" THEN -MaxBound .. MaxBound
                      ELSE { F64(t) : t \in -MaxHalves .. MaxHalves } \cup {NaN}

-----------------------------------------------------------------------------
(* The concrete kinds and their impl of the Type trait *)

\* the variants of enum AnyType
Tags == {"Enum", "Integer", "Floating", "Physical", "Array",
         "Null", "UniversalInteger", "UniversalReal"}

\* the variants of AnyType that carry a reference
RefTags == {"Enum", "Integer", "Floating", "Physical", "Array"}

\* the payload of a variant that carries no reference
NoRef == 0

\* impl Type for EnumType
EnumType_is_scalar == TRUE
EnumType_is_discrete == TRUE
EnumType_is_numeric == FALSE
EnumType_is_composite == FALSE
EnumType_as_any(self) == [tag |-> "Enum", ref |-> self]

\* impl<T: IntegerType> Type for T
IntegerType_is_scalar == TRUE
IntegerType_is_discrete == TRUE
IntegerType_is_numeric == TRUE
IntegerType_is_composite == FALSE
IntegerType_as_any(self) == [tag |-> "Integer", ref |-> self]

\* impl Type for FloatingType
FloatingType_is_scalar == TRUE
FloatingType_is_discrete == FALSE
FloatingType_is_numeric == TRUE
FloatingType_is_composite == FALSE
FloatingType_as_any(self) == [tag |-> "Floating", ref |-> self]

\* impl Type for PhysicalType
PhysicalType_is_scalar == TRUE
PhysicalType_is_discrete == FALSE
PhysicalType_is_numeric == TRUE
PhysicalType_is_composite == FALSE
PhysicalType_as_any(self) == [tag |-> "Physical", ref |-> self]

\* impl Type for ArrayType
\* an array that answers is_scalar with true
ArrayType_is_scalar_true == TRUE
ArrayType_is_scalar == FALSE
ArrayType_is_discrete == FALSE
ArrayType_is_numeric == FALSE
ArrayType_is_composite == TRUE
ArrayType_as_any(self) == [tag |-> "Array", ref |-> self]

\* impl Type for NullType
NullType_is_scalar == FALSE
NullType_is_discrete == FALSE
NullType_is_numeric == FALSE
NullType_is_composite == FALSE
NullType_as_any == [tag |-> "Null", ref |-> NoRef]

\* impl Type for UniversalIntegerType
UniversalIntegerType_is_scalar == TRUE
UniversalIntegerType_is_discrete == TRUE
UniversalIntegerType_is_numeric == TRUE
UniversalIntegerType_is_composite == FALSE
UniversalIntegerType_as_any == [tag |-> "UniversalInteger", ref |-> NoRef]

\* impl Type for UniversalRealType
UniversalRealType_is_scalar == TRUE
UniversalRealType_is_discrete == FALSE
UniversalRealType_is_numeric == TRUE
UniversalRealType_is_composite == FALSE
UniversalRealType_as_any == [tag |-> "UniversalReal", ref |-> NoRef]

\* <T as Type>::is_scalar(&v) for the concrete value v, whose static type T
\* is the kind it was constructed as
Type_is_scalar(v) ==
    CASE v.kind = "Enum"             -> EnumType_is_scalar
      [] v.kind = "Integer"          -> IntegerType_is_scalar
      [] v.kind = "Floating"         -> FloatingType_is_scalar
      [] v.kind = "Physical"         -> PhysicalType_is_scalar
      [] v.kind = "Array"            -> ArrayType_is_scalar
      [] v.kind = "Null"             -> NullType_is_scalar
      [] v.kind = "UniversalInteger" -> UniversalIntegerType_is_scalar
      [] v.kind = "UniversalReal"    -> UniversalRealType_is_scalar

Type_is_discrete(v) ==
    CASE v.kind = "Enum"             -> EnumType_is_discrete
      [] v.kind = "Integer"          -> IntegerType_is_discrete
      [] v.kind = "Floating"         -> FloatingType_is_discrete
      [] v.kind = "Physical"         -> PhysicalType_is_discrete
      [] v.kind = "Array"            -> ArrayType_is_discrete
      [] v.kind = "Null"             -> NullType_is_discrete
      [] v.kind = "UniversalInteger" -> UniversalIntegerType_is_discrete
      [] v.kind = "UniversalReal"    -> UniversalRealType_is_discrete

Type_is_numeric(v) ==
    CASE v.kind = "Enum"             -> EnumType_is_numeric
      [] v.kind = "Integer"          -> IntegerType_is_numeric
      [] v.kind = "Floating"         -> FloatingType_is_numeric
      [] v.kind = "Physical"         -> PhysicalType_is_numeric
      [] v.kind = "Array"            -> ArrayType_is_numeric
      [] v.kind = "Null"             -> NullType_is_numeric
      [] v.kind = "UniversalInteger" -> UniversalIntegerType_is_numeric
      [] v.kind = "UniversalReal"    -> UniversalRealType_is_numeric

Type_is_composite(v) ==
    CASE v.kind = "Enum"             -> EnumType_is_composite
      [] v.kind = "Integer"          -> IntegerType_is_composite
      [] v.kind = "Floating"         -> FloatingType_is_composite
      [] v.kind = "Physical"         -> PhysicalType_is_composite
      [] v.kind = "Array"            -> ArrayType_is_composite
      [] v.kind = "Null"             -> NullType_is_composite
      [] v.kind = "UniversalInteger" -> UniversalIntegerType_is_composite
      [] v.kind = "UniversalReal"    -> UniversalRealType_is_composite

\* <T as Type>::as_any(&v), v being the value at address a of the arena
Type_as_any(v, a) ==
    CASE v.kind = "Enum"             -> EnumType_as_any(a)
      [] v.kind = "Integer"          -> IntegerType_as_any(a)
      [] v.kind = "Floating"         -> FloatingType_as_any(a)
      [] v.kind = "Physical"         -> PhysicalType_as_any(a)
      [] v.kind = "Array"            -> ArrayType_as_any(a)
      [] v.kind = "Null"             -> NullType_as_any
      [] v.kind = "UniversalInteger" -> UniversalIntegerType_as_any
      [] v.kind = "UniversalReal"    -> UniversalRealType_as_any

\* impl From<&T> for AnyType
AnyType_from(v, a) == Type_as_any(v, a)

-----------------------------------------------------------------------------
(* impl Type for AnyType *)

AnyType_is_scalar(self) ==
    CASE self.tag = "Enum"             -> EnumType_is_scalar
      [] self.tag = "Integer"          -> IntegerType_is_scalar
      [] self.tag = "Floating"         -> FloatingType_is_scalar
      [] self.tag = "Physical"         -> PhysicalType_is_scalar
      [] self.tag = "Array"            -> ArrayType_is_scalar
      [] self.tag = "Null"             -> NullType_is_scalar
      [] self.tag = "UniversalInteger" -> UniversalIntegerType_is_scalar
      [] self.tag = "UniversalReal"    -> UniversalRealType_is_scalar

AnyType_is_discrete(self) ==
    CASE self.tag = "Enum"             -> EnumType_is_discrete
      [] self.tag = "Integer"          -> IntegerType_is_discrete
      [] self.tag = "Floating"         -> FloatingType_is_discrete
      [] self.tag = "Physical"         -> PhysicalType_is_discrete
      [] self.tag = "Array"            -> ArrayType_is_discrete
      [] self.tag = "Null"             -> NullType_is_discrete
      [] self.tag = "UniversalInteger" -> UniversalIntegerType_is_discrete
      [] self.tag = "UniversalReal"    -> UniversalRealType_is_discrete

\* is_numeric with the Enum arm asking is_discrete
AnyType_is_numeric_enumarm(self) ==
    CASE self.tag = "Enum"             -> EnumType_is_discrete
      [] self.tag = "Integer"          -> IntegerType_is_numeric
      [] self.tag = "Floating"         -> FloatingType_is_numeric
      [] self.tag = "Physical"         -> PhysicalType_is_numeric
      [] self.tag = "Array"            -> ArrayType_is_numeric
      [] self.tag = "Null"             -> NullType_is_numeric
      [] self.tag = "UniversalInteger" -> UniversalIntegerType_is_numeric
      [] self.tag = "UniversalReal"    -> UniversalRealType_is_numeric

AnyType_is_numeric(self) ==
    CASE self.tag = "Enum"             -> EnumType_is_numeric
      [] self.tag = "Integer"          -> IntegerType_is_numeric
      [] self.tag = "Floating"         -> FloatingType_is_numeric
      [] self.tag = "Physical"         -> PhysicalType_is_numeric
      [] self.tag = "Array"            -> ArrayType_is_numeric
      [] self.tag = "Null"             -> NullType_is_numeric
      [] self.tag = "UniversalInteger" -> UniversalIntegerType_is_numeric
      [] self.tag = "UniversalReal"    -> UniversalRealType_is_numeric

AnyType_is_composite(self) ==
    CASE self.tag = "Enum"             -> EnumType_is_composite
      [] self.tag = "Integer"          -> IntegerType_is_composite
      [] self.tag = "Floating"         -> FloatingType_is_composite
      [] self.tag = "Physical"         -> PhysicalType_is_composite
      [] self.tag = "Array"            -> ArrayType_is_composite
      [] self.tag = "Null"             -> NullType_is_composite
      [] self.tag = "UniversalInteger" -> UniversalIntegerType_is_composite
      [] self.tag = "UniversalReal"    -> UniversalRealType_is_composite

\* as_any that keeps the tag and drops the reference
AnyType_as_any_noref(self) == [tag |-> self.tag, ref |-> NoRef]

\* fn as_any(&self) -> AnyType { *self }
AnyType_as_any(self) == self

-----------------------------------------------------------------------------
(* impl AnyType: the narrowing accessors *)

\* Option<&T>
None == [some |-> FALSE, ref |-> NoRef]
Some(t) == [some |-> TRUE, ref |-> t]

as_enum(self) == IF self.tag = "Enum" THEN Some(self.ref) ELSE None

as_integer(self) == IF self.tag = "Integer" THEN Some(self.ref) ELSE None

as_floating(self) == IF self.tag = "Floating" THEN Some(self.ref) ELSE None

\* as_physical matching the Floating variant
as_physical_floating(self) == IF self.tag = "Floating" THEN Some(self.ref) ELSE None

as_physical(self) == IF self.tag = "Physical" THEN Some(self.ref) ELSE None

as_array(self) == IF self.tag = "Array" THEN Some(self.ref) ELSE None

AnyType_is_null(self) == self.tag = "Null"

is_universal_integer(self) == self.tag = "UniversalInteger"

is_universal_real(self) == self.tag = "UniversalReal"

\* a panic: no value is returned
Panic == [panic |-> TRUE, ref |-> NoRef]

\* expect that hands out a default reference on None
expect_default(opt) == [panic |-> FALSE, ref |-> opt.ref]

\* Option::expect: the payload of Some, a panic on None
expect(opt) == IF opt.some THEN [panic |-> FALSE, ref |-> opt.ref] ELSE Panic

unwrap_enum(self) == expect(as_enum(self))

unwrap_integer(self) == expect(as_integer(self))

unwrap_floating(self) == expect(as_floating(self))

unwrap_physical(self) == expect(as_physical(self))

unwrap_array(self) == expect(as_array(self))

-----------------------------------------------------------------------------
(* The concrete type values *)

\* enum EnumLiteral { Ident(Name), Char(char) }
Ident(n) == [variant |-> "Ident", text |-> n]
Char(c) == [variant |-> "Char", text |-> c]

\* the literals a declaration is made of
LitPool == {Ident("first"), Char("0")}

\* the sequences over S of length at most n
SeqUpTo(S, n) == UNION { [1..k -> S] : k \in 0..n }

\* the sequence s in reverse order
RECURSIVE Reverse(_)
Reverse(s) == IF s = <<>> THEN <<>> ELSE Append(Reverse(Tail(s)), Head(s))

\* EnumType::new collecting the literals last to first
EnumType_new_reversed(lits) == [kind |-> "Enum", lits |-> Reverse(lits)]

\* EnumType::new: collects the literals in iteration order
EnumType_new(lits) == [kind |-> "Enum", lits |-> lits]

\* EnumType::len
EnumType_len(self) == Len(self.lits)

\* an index out of bounds: a panic, no literal is returned
IndexPanic == [panic |-> TRUE]

\* literal that answers an index out of bounds with an empty identifier
EnumType_literal_lenient(self, pos) ==
    IF pos < Len(self.lits) THEN [panic |-> FALSE, val |-> self.lits[pos + 1]]
                            ELSE [panic |-> FALSE, val |-> Ident("")]

\* EnumType::literal: &self.lits[pos], pos a usize counting from 0
EnumType_literal(self, pos) ==
    IF pos < Len(self.lits) THEN [panic |-> FALSE, val |-> self.lits[pos + 1]]
                            ELSE IndexPanic

\* EnumType::literals
EnumType_literals(self) == self.lits

\* a concrete implementer of trait IntegerType, with its range()
IntegerType_new(range) == [kind |-> "Integer", range |-> range]

\* FloatingType::new
FloatingType_new(range) == [kind |-> "Floating", range |-> range]

\* PhysicalUnit::primary
PhysicalUnit_primary(name, abs) == [name |-> name, abs |-> abs, rel |-> <<>>]

\* PhysicalUnit::secondary; rel is Some((rel, rel_to))
PhysicalUnit_secondary(name, abs, rel, rel_to) ==
    [name |-> name, abs |-> abs, rel |-> <<rel, rel_to>>]

\* PhysicalType::new that keeps the primary index within the units
PhysicalType_new_clamped(range, units, primary) ==
    [kind |-> "Physical", range |-> range, units |-> units,
     primary |-> IF primary < Len(units) THEN primary ELSE 0]

\* PhysicalType::new
PhysicalType_new(range, units, primary) ==
    [kind |-> "Physical", range |-> range, units |-> units, primary |-> primary]

\* PhysicalType::units
PhysicalType_units(self) == self.units

\* PhysicalType::primary_index
PhysicalType_primary_index(self) == self.primary

\* impl Display for FloatingType
FloatingType_fmt(self) == Range_fmt(self.range)

\* the separator the i-th unit is written after: once("").chain(repeat(", "))
UnitSep(i) == IF i = 1 THEN "" ELSE ", "

\* the loop of Display for PhysicalType over the first n units
RECURSIVE UnitsFmt(_, _)
UnitsFmt(units, n) ==
    IF n = 0 THEN ""
    ELSE UnitsFmt(units, n - 1) \o UnitSep(n) \o units[n].name

\* impl Display for PhysicalType
PhysicalType_fmt(self) ==
    Range_fmt(self.range) \o " units (" \o UnitsFmt(self.units, Len(self.units)) \o ")"

\* struct ArrayType { indices, element }: references into the arena
ArrayType_new(indices, element) ==
    [kind |-> "Array", indices |-> indices, element |-> element]

\* the stateless marker types NullType, UniversalIntegerType, UniversalRealType
Markers == {"Null", "UniversalInteger", "UniversalReal"}
Marker(k) == [kind |-> k]

\* the ranges the modelled declarations give their types
TypeRanges(dom) ==
    IF dom = "BigInt" THEN {ascending(dom, 0, 1), descending(dom, 1, 0)}
                      ELSE {ascending(dom, F64(0), F64(2)), descending(dom, F64(2), F64(0))}

\* the unit lists of the modelled declarations
UnitLists ==
    { <<PhysicalUnit_primary("fs", 1)>>,
      <<PhysicalUnit_primary("fs", 1), PhysicalUnit_secondary("ps", 1000, 1000, 0)>>,
      <<PhysicalUnit_primary("fs", 1), PhysicalUnit_secondary("ps", 1000, 1000, 0),
        PhysicalUnit_secondary("ns", 1000000, 1000, 1)>> }

-----------------------------------------------------------------------------
(* The state machine of the type model: the elaborator constructs type     *)
(* values into the arena, takes a view of one and queries the view.        *)

NoView == [tag |-> "none", ref |-> NoRef]
NoResult == [op |-> "none"]

Accessors == {"as_enum", "as_integer", "as_floating", "as_physical", "as_array"}
Unwrappers == {"unwrap_enum", "unwrap_integer", "unwrap_floating",
               "unwrap_physical", "unwrap_array"}
MarkerTests == {"is_null", "is_universal_integer", "is_universal_real"}

\* the call self.<acc>() of a checked accessor
CallAccessor(acc, self) ==
    CASE acc = "as_enum"     -> as_enum(self)
      [] acc = "as_integer"  -> as_integer(self)
      [] acc = "as_floating" -> as_floating(self)
      [] acc = "as_physical" -> as_physical(self)
      [] acc = "as_array"    -> as_array(self)

\* the call self.<acc>() of an unwrap accessor
CallUnwrap(acc, self) ==
    CASE acc = "unwrap_enum"     -> unwrap_enum(self)
      [] acc = "unwrap_integer"  -> unwrap_integer(self)
      [] acc = "unwrap_floating" -> unwrap_floating(self)
      [] acc = "unwrap_physical" -> unwrap_physical(self)
      [] acc = "unwrap_array"    -> unwrap_array(self)

\* the call self.<test>() of a marker test
CallMarkerTest(test, self) ==
    CASE test = "is_null"              -> AnyType_is_null(self)
      [] test = "is_universal_integer" -> is_universal_integer(self)
      [] test = "is_universal_real"    -> is_universal_real(self)

TypesInit ==
    /\ arena = <<>>
    /\ view = NoView
    /\ result = NoResult
    /\ pc = "running"

\* the arena after the elaborator has stored the new value v in it
Store(v) == Append(arena, v)

NewEnum ==
    \E lits \in SeqUpTo(LitPool, MaxLits) :
        /\ pc = "running"
        /\ Len(arena) < MaxTypes
        /\ arena' = Store(EnumType_new(lits))
        /\ result' = [op |-> "EnumType_new", input |-> lits, addr |-> Len(arena) + 1]
        /\ UNCHANGED <<view, pc>>
        /\ UNCHANGED exceptTypes

NewInteger ==
    \E r \in TypeRanges("BigInt") :
        /\ pc = "running"
        /\ Len(arena) < MaxTypes
        /\ arena' = Store(IntegerType_new(r))
        /\ UNCHANGED <<view, result, pc>>
        /\ UNCHANGED exceptTypes

NewFloating ==
    \E r \in TypeRanges("f64") :
        /\ pc = "running"
        /\ Len(arena) < MaxTypes
        /\ arena' = Store(FloatingType_new(r))
        /\ UNCHANGED <<view, result, pc>>
        /\ UNCHANGED exceptTypes

NewPhysical ==
    \E r \in TypeRanges("BigInt"), units \in UnitLists :
        /\ pc = "running"
        /\ Len(arena) < MaxTypes
        /\ arena' = Store(PhysicalType_new(r, units, 0))
        /\ UNCHANGED <<view, result, pc>>
        /\ UNCHANGED exceptTypes

\* an array refers to types that already exist
NewArray ==
    \E indices \in SeqUpTo(DOMAIN arena, 1), element \in DOMAIN arena :
        /\ pc = "running"
        /\ Len(arena) < MaxTypes
        /\ arena' = Store(ArrayType_new(indices, element))
        /\ UNCHANGED <<view, result, pc>>
        /\ UNCHANGED exceptTypes

NewMarker ==
    \E k \in Markers :
        /\ pc = "running"
        /\ Len(arena) < MaxTypes
        /\ arena' = Store(Marker(k))
        /\ UNCHANGED <<view, result, pc>>
        /\ UNCHANGED exceptTypes

\* the addresses of the enumeration types
Enums == {a \in DOMAIN arena : arena[a].kind = "Enum"}

\* arena[a].len()
EnumTypeLen ==
    \E a \in Enums :
        /\ pc = "running"
        /\ result' = [op |-> "len", addr |-> a, val |-> EnumType_len(arena[a])]
        /\ UNCHANGED <<arena, view, pc>>
        /\ UNCHANGED exceptTypes

\* arena[a].literal(pos); an index out of bounds aborts the program
EnumTypeLiteral ==
    \E a \in Enums, pos \in 0..MaxLits :
        LET out == EnumType_literal(arena[a], pos)
        IN  /\ pc = "running"
            /\ result' = [op |-> "literal", addr |-> a, pos |-> pos, out |-> out]
            /\ pc' = IF out.panic THEN "panicked" ELSE pc
            /\ UNCHANGED <<arena, view>>
            /\ UNCHANGED exceptTypes

\* arena[a].literals()
EnumTypeLiterals ==
    \E a \in Enums :
        /\ pc = "running"
        /\ result' = [op |-> "literals", addr |-> a, val |-> EnumType_literals(arena[a])]
        /\ UNCHANGED <<arena, view, pc>>
        /\ UNCHANGED exceptTypes

\* AnyType::from(&arena[a])
From ==
    \E a \in DOMAIN arena :
        /\ pc = "running"
        /\ view' = AnyType_from(arena[a], a)
        /\ result' = NoResult
        /\ UNCHANGED <<arena, pc>>
    /\ UNCHANGED exceptTypes
        /\ UNCHANGED exceptTypes

\* view.as_any()
AsAny ==
    /\ pc = "running"
    /\ view # NoView
    /\ view' = AnyType_as_any(view)
    /\ result' = [op |-> "as_any", on |-> view]
    /\ UNCHANGED <<arena, pc>>
    /\ UNCHANGED exceptTypes

\* the four predicates on the value at an address and on its view
Classify ==
    \E a \in DOMAIN arena :
        LET v == arena[a]
            w == AnyType_from(v, a)
        IN  /\ pc = "running"
            /\ result' = [op |-> "classify", kind |-> v.kind, tag |-> w.tag,
                          conc |-> [is_scalar |-> Type_is_scalar(v),
                                    is_discrete |-> Type_is_discrete(v),
                                    is_numeric |-> Type_is_numeric(v),
                                    is_composite |-> Type_is_composite(v)],
                          any |-> [is_scalar |-> AnyType_is_scalar(w),
                                   is_discrete |-> AnyType_is_discrete(w),
                                   is_numeric |-> AnyType_is_numeric(w),
                                   is_composite |-> AnyType_is_composite(w)]]
            /\ UNCHANGED <<arena, view, pc>>
        /\ UNCHANGED exceptTypes
            /\ UNCHANGED exceptTypes

\* a checked narrowing of the view
Narrow ==
    \E acc \in Accessors :
        /\ pc = "running"
        /\ view # NoView
        /\ result' = [op |-> acc, on |-> view, opt |-> CallAccessor(acc, view)]
        /\ UNCHANGED <<arena, view, pc>>
        /\ UNCHANGED exceptTypes

\* a marker test of the view
TestMarker ==
    \E test \in MarkerTests :
        /\ pc = "running"
        /\ view # NoView
        /\ result' = [op |-> test, on |-> view, val |-> CallMarkerTest(test, view)]
        /\ UNCHANGED <<arena, view, pc>>
        /\ UNCHANGED exceptTypes

\* an unwrapping narrowing of the view; a failed expect() aborts the program
Unwrap ==
    \E acc \in Unwrappers :
        LET out == CallUnwrap(acc, view)
        IN  /\ pc = "running"
            /\ view # NoView
            /\ result' = [op |-> acc, on |-> view, out |-> out]
            /\ pc' = IF out.panic THEN "panicked" ELSE pc
            /\ UNCHANGED <<arena, view>>
            /\ UNCHANGED exceptTypes

-----------------------------------------------------------------------------
(* The state machine of the ranges: two ranges over the same domain are    *)
(* constructed, by value, and then queried; no operation mutates a range.  *)

NoRange == [dom |-> "none"]
NoRangeResult == [op |-> "none"]

RangeInit ==
    /\ ra = NoRange
    /\ rb = NoRange
    /\ rres = NoRangeResult

\* the domains a range in slot `which` can be built over
FreeDomains(which) ==
    LET mine == IF which = "a" THEN ra ELSE rb
        other == IF which = "a" THEN rb ELSE ra
    IN  IF mine # NoRange THEN {}
        ELSE IF other # NoRange THEN {other.dom} ELSE Domains

\* the range r that the constructor call `call` returns is bound to `which`
Bind(which, r, call) ==
    /\ IF which = "a" THEN ra' = r /\ rb' = rb ELSE rb' = r /\ ra' = ra
    /\ rres' = [op |-> call.op, args |-> call, self |-> r]
    /\ UNCHANGED exceptRange

WithLeftRight ==
    \E which \in {"a", "b"} : \E dom \in FreeDomains(which) :
        \E d \in RangeDir, l \in BoundValues(dom), r \in BoundValues(dom) :
            Bind(which, with_left_right(dom, d, l, r),
                 [op |-> "with_left_right", dir |-> d, left |-> l, right |-> r])

WithLowerUpper ==
    \E which \in {"a", "b"} : \E dom \in FreeDomains(which) :
        \E d \in RangeDir, l \in BoundValues(dom), u \in BoundValues(dom) :
            Bind(which, with_lower_upper(dom, d, l, u),
                 [op |-> "with_lower_upper", dir |-> d, lower |-> l, upper |-> u])

Ascending ==
    \E which \in {"a", "b"} : \E dom \in FreeDomains(which) :
        \E l \in BoundValues(dom), r \in BoundValues(dom) :
            Bind(which, ascending(dom, l, r),
                 [op |-> "ascending", left |-> l, right |-> r])

Descending ==
    \E which \in {"a", "b"} : \E dom \in FreeDomains(which) :
        \E l \in BoundValues(dom), r \in BoundValues(dom) :
            Bind(which, descending(dom, l, r),
                 [op |-> "descending", left |-> l, right |-> r])

\* the ranges constructed so far
Built == {ra, rb} \ {NoRange}

IsNull ==
    \E r \in Built :
        /\ rres' = [op |-> "is_null", self |-> r, val |-> is_null(r)]
        /\ UNCHANGED <<ra, rb>>
        /\ UNCHANGED exceptRange

Length ==
    \E r \in Built :
        /\ rres' = [op |-> "len", self |-> r, val |-> len(r)]
        /\ UNCHANGED <<ra, rb>>
        /\ UNCHANGED exceptRange

HasSubrange ==
    \E r \in Built, subrange \in Built :
        /\ rres' = [op |-> "has_subrange", self |-> r, subrange |-> subrange,
                    val |-> has_subrange(r, subrange)]
        /\ UNCHANGED <<ra, rb>>
        /\ UNCHANGED exceptRange

\* format!("{}", r)
FmtRange ==
    \E r \in Built :
        /\ rres' = [op |-> "fmt", self |-> r, val |-> Range_fmt(r)]
        /\ UNCHANGED <<ra, rb>>
        /\ UNCHANGED exceptRange

\* format!("{}", FloatingType::new(r))
FmtFloating ==
    \E r \in {b \in Built : b.dom = "f64"} :
        LET ty == FloatingType_new(r)
        IN  /\ rres' = [op |-> "fmt_floating", self |-> ty, val |-> FloatingType_fmt(ty)]
            /\ UNCHANGED <<ra, rb>>
            /\ UNCHANGED exceptRange

\* format!("{}", PhysicalType::new(r, units, 0))
FmtPhysical ==
    \E r \in {b \in Built : b.dom = "BigInt"}, units \in UnitLists :
        LET ty == PhysicalType_new(r, units, 0)
        IN  /\ rres' = [op |-> "fmt_physical", self |-> ty, val |-> PhysicalType_fmt(ty)]
            /\ UNCHANGED <<ra, rb>>
            /\ UNCHANGED exceptRange

-----------------------------------------------------------------------------
(* The state machine of a physical type *)

NoPhys == [kind |-> "none"]
NoPhysResult == [op |-> "none"]

PhysInit ==
    /\ unitVec = <<>>
    /\ phys = NoPhys
    /\ pres = NoPhysResult

\* the names, absolute scales and relative scales of the modelled units
UnitNames == {"fs", "ps"}
UnitAbs == {1, 1000}
UnitRel == {1000}

\* units.push(PhysicalUnit::primary(name, abs))
PushPrimary ==
    \E name \in UnitNames, abs \in UnitAbs :
        LET unit == PhysicalUnit_primary(name, abs)
        IN  /\ phys = NoPhys
            /\ Len(unitVec) < MaxUnits
            /\ unitVec' = Append(unitVec, unit)
            /\ pres' = [op |-> "primary", name |-> name, abs |-> abs, val |-> unit]
            /\ UNCHANGED phys
            /\ UNCHANGED exceptPhys

\* units.push(PhysicalUnit::secondary(name, abs, rel, rel_to))
PushSecondary ==
    \E name \in UnitNames, abs \in UnitAbs, rel \in UnitRel, rel_to \in 0..MaxUnits :
        LET unit == PhysicalUnit_secondary(name, abs, rel, rel_to)
        IN  /\ phys = NoPhys
            /\ Len(unitVec) < MaxUnits
            /\ unitVec' = Append(unitVec, unit)
            /\ pres' = [op |-> "secondary", name |-> name, abs |-> abs,
                        rel |-> rel, rel_to |-> rel_to, val |-> unit]
            /\ UNCHANGED phys
            /\ UNCHANGED exceptPhys

\* PhysicalType::new(range, units, primary)
NewPhysicalType ==
    \E range \in TypeRanges("BigInt"), primary \in 0..MaxUnits :
        /\ phys = NoPhys
        /\ phys' = PhysicalType_new(range, unitVec, primary)
        /\ pres' = [op |-> "PhysicalType_new", range |-> range, units |-> unitVec,
                    primary |-> primary]
        /\ UNCHANGED unitVec
        /\ UNCHANGED exceptPhys

\* phys.units()
PhysUnits ==
    /\ phys # NoPhys
    /\ pres' = [op |-> "units", val |-> PhysicalType_units(phys)]
    /\ UNCHANGED <<unitVec, phys>>
    /\ UNCHANGED exceptPhys

\* phys.primary_index()
PhysPrimaryIndex ==
    /\ phys # NoPhys
    /\ pres' = [op |-> "primary_index", val |-> PhysicalType_primary_index(phys)]
    /\ UNCHANGED <<unitVec, phys>>
    /\ UNCHANGED exceptPhys

-----------------------------------------------------------------------------------------------------------------------------------------------------
(* The LLHD types *)

\* the element types of the modelled signals and pointers: i1 and i8
IntegerTy(width) == [kind |-> "int", width |-> width]
LlhdBase == {IntegerTy(1), IntegerTy(8)}

\* the C API of the LLHD dialect
llhdSignalTypeGet(element) == [kind |-> "sig", elem |-> element]
llhdPointerTypeGet(element) == [kind |-> "ptr", elem |-> element]

\* the outcome of a call that returns ty; a call that aborts returns nothing
Returns(ty) == [abort |-> FALSE, val |-> ty]
Aborts == [abort |-> TRUE]

\* the types of the model, wrapped at most twice
LlhdTypes1 == LlhdBase \cup {llhdSignalTypeGet(e) : e \in LlhdBase}
                       \cup {llhdPointerTypeGet(e) : e \in LlhdBase}
LlhdTypes == LlhdTypes1 \cup {llhdSignalTypeGet(e) : e \in LlhdTypes1}
                        \cup {llhdPointerTypeGet(e) : e \in LlhdTypes1}

\* llhdSignalTypeGetElementType casts its argument to a signal type: on any
\* other type the cast is undefined behaviour, which aborts on an assertion
\* or reads some type out of the foreign storage
llhdSignalTypeGetElementType(ty) ==
    IF ty.kind = "sig" THEN {Returns(ty.elem)}
    ELSE {Aborts} \cup {Returns(t) : t \in LlhdTypes1}

\* llhdPointerTypeGetElementType, likewise for a pointer type
llhdPointerTypeGetElementType(ty) ==
    IF ty.kind = "ptr" THEN {Returns(ty.elem)}
    ELSE {Aborts} \cup {Returns(t) : t \in LlhdTypes1}

\* get_signal_type
get_signal_type(element) == llhdSignalTypeGet(element)

\* get_pointer_type
get_pointer_type(element) == llhdSignalTypeGet(element)

\* signal_type_element: the outcomes of the call
signal_type_element(ty) == llhdSignalTypeGetElementType(ty)

\* pointer_type_element: the outcomes of the call
pointer_type_element(ty) == llhdPointerTypeGetElementType(ty)

-----------------------------------------------------------------------------
(* EntityLikeBuilder and the EntityLike ops *)

\* EntityLikeBuilder::new
EntityLikeBuilder_new(name) == [name |-> name, inputs |-> <<>>, outputs |-> <<>>]

\* add_input: self.inputs.push((name, ty))
add_input(self, name, ty) ==
    [self EXCEPT !.inputs = Append(@, <<name, ty>>)]

\* add_output pushing onto the inputs
add_output_as_input(self, name, ty) ==
    [self EXCEPT !.inputs = Append(@, <<name, ty>>)]

\* add_output: self.outputs.push((name, ty))
add_output(self, name, ty) ==
    [self EXCEPT !.outputs = Append(@, <<name, ty>>)]

\* the types of a list of (name, type) ports: .map(|(_, ty)| *ty)
PortTypes(ports) == [i \in 1..Len(ports) |-> ports[i][2]]

\* build: the op of the given name with the attributes sym_name, type and ins
\* and one region of one block, whose arguments are the types of the inputs
\* followed by those of the outputs
build(self, opname) ==
    LET types == PortTypes(self.inputs) \o PortTypes(self.outputs)
    IN  [name |-> opname,
         attrs |-> [sym_name |-> self.name,
                    type |-> [inputs |-> types, results |-> <<>>],
                    ins |-> Len(self.inputs)],
         block |-> types]

\* build_entity
build_entity(self) == build(self, "llhd.entity")

\* build_process
build_process(self) == build(self, "llhd.proc")

\* mlirBlockGetNumArguments(self.block())
num_ports(self) == Len(self.block)

\* self.attr_usize("ins")
num_inputs(self) == self.attrs.ins

\* num_ports() - num_inputs()
num_outputs(self) == num_ports(self) - num_inputs(self)

\* port: the block argument of the given index, counted from 0
port(self, index) == [arg |-> index, ty |-> self.block[index + 1]]

\* a failed assert!: a panic, no value is returned
AssertPanic == [panic |-> TRUE]

\* input
input(self, index) ==
    IF index < num_inputs(self) THEN [panic |-> FALSE, val |-> port(self, index)]
                                ELSE AssertPanic

\* output that forgets the inputs before the outputs
output_unshifted(self, index) ==
    IF index < num_outputs(self) THEN [panic |-> FALSE, val |-> port(self, index)]
                                 ELSE AssertPanic

\* output
output(self, index) ==
    IF index < num_outputs(self)
    THEN [panic |-> FALSE, val |-> port(self, index + num_inputs(self))]
    ELSE AssertPanic

\* ports: (0..num_ports()).map(port)
ports(self) == [i \in 1..num_ports(self) |-> port(self, i - 1)]

\* input_ports: (0..num_inputs()).map(input)
input_ports(self) == [i \in 1..num_inputs(self) |-> input(self, i - 1)]

\* output_ports: (0..num_outputs()).map(output)
output_ports(self) == [i \in 1..num_outputs(self) |-> output(self, i - 1)]

-----------------------------------------------------------------------------
(* The state machine of the LLHD helpers: a builder collects ports and     *)
(* builds ops, the ports of the op built last are queried; signal and      *)
(* pointer types are made and taken apart.                                 *)

NoOp == [name |-> "none"]
NoLlhdResult == [op |-> "none", panic |-> FALSE]

\* the name given to the modelled ports
PortNames == {"p"}

LlhdInit ==
    /\ builder = EntityLikeBuilder_new("top")
    /\ calls = <<>>
    /\ op = NoOp
    /\ lres = NoLlhdResult

\* builder.add_input(name, ty)
AddInput ==
    \E name \in PortNames, ty \in LlhdBase :
        /\ ~lres.panic
        /\ Len(calls) < MaxPorts
        /\ builder' = add_input(builder, name, ty)
        /\ calls' = Append(calls, [dir |-> "in", name |-> name, ty |-> ty])
        /\ lres' = [op |-> "add_input", panic |-> FALSE]
        /\ UNCHANGED op
        /\ UNCHANGED exceptLlhd

\* builder.add_output(name, ty)
AddOutput ==
    \E name \in PortNames, ty \in LlhdBase :
        /\ ~lres.panic
        /\ Len(calls) < MaxPorts
        /\ builder' = add_output(builder, name, ty)
        /\ calls' = Append(calls, [dir |-> "out", name |-> name, ty |-> ty])
        /\ lres' = [op |-> "add_output", panic |-> FALSE]
        /\ UNCHANGED op
        /\ UNCHANGED exceptLlhd

\* builder.build_entity(..)
BuildEntity ==
    /\ ~lres.panic
    /\ op' = build_entity(builder)
    /\ lres' = [op |-> "build_entity", calls |-> calls, panic |-> FALSE]
    /\ UNCHANGED <<builder, calls>>
    /\ UNCHANGED exceptLlhd

\* builder.build_process(..)
BuildProcess ==
    /\ ~lres.panic
    /\ op' = build_process(builder)
    /\ lres' = [op |-> "build_process", calls |-> calls, panic |-> FALSE]
    /\ UNCHANGED <<builder, calls>>
    /\ UNCHANGED exceptLlhd

\* op.num_ports(), op.num_inputs() and op.num_outputs()
Counts ==
    /\ ~lres.panic
    /\ op # NoOp
    /\ lres' = [op |-> "counts", num_ports |-> num_ports(op),
                num_inputs |-> num_inputs(op), num_outputs |-> num_outputs(op),
                panic |-> FALSE]
    /\ UNCHANGED <<builder, calls, op>>
    /\ UNCHANGED exceptLlhd

\* op.input(index)
Input ==
    \E index \in 0..MaxPorts :
        LET out == input(op, index)
        IN  /\ ~lres.panic
            /\ op # NoOp
            /\ lres' = [op |-> "input", index |-> index, out |-> out,
                        panic |-> out.panic]
            /\ UNCHANGED <<builder, calls, op>>
            /\ UNCHANGED exceptLlhd

\* op.output(index)
Output ==
    \E index \in 0..MaxPorts :
        LET out == output(op, index)
        IN  /\ ~lres.panic
            /\ op # NoOp
            /\ lres' = [op |-> "output", index |-> index, out |-> out,
                        panic |-> out.panic]
            /\ UNCHANGED <<builder, calls, op>>
            /\ UNCHANGED exceptLlhd

\* op.ports(), op.input_ports() and op.output_ports(), each collected
Ports ==
    LET ins == input_ports(op)
        outs == output_ports(op)
    IN  /\ ~lres.panic
        /\ op # NoOp
        /\ lres' = [op |-> "ports", ports |-> ports(op), input_ports |-> ins,
                    output_ports |-> outs,
                    panic |-> \E i \in 1..Len(ins \o outs) : (ins \o outs)[i].panic]
        /\ UNCHANGED <<builder, calls, op>>
        /\ UNCHANGED exceptLlhd

\* get_signal_type(element)
GetSignalType ==
    \E element \in LlhdBase :
        /\ ~lres.panic
        /\ lres' = [op |-> "get_signal_type", element |-> element,
                    val |-> get_signal_type(element), panic |-> FALSE]
        /\ UNCHANGED <<builder, calls, op>>
        /\ UNCHANGED exceptLlhd

\* get_pointer_type(element)
GetPointerType ==
    \E element \in LlhdBase :
        /\ ~lres.panic
        /\ lres' = [op |-> "get_pointer_type", element |-> element,
                    val |-> get_pointer_type(element), panic |-> FALSE]
        /\ UNCHANGED <<builder, calls, op>>
        /\ UNCHANGED exceptLlhd

\* signal_type_element(ty) of the type made last
SignalTypeElement ==
    /\ ~lres.panic
    /\ lres.op \in {"get_signal_type", "get_pointer_type"}
    /\ \E out \in signal_type_element(lres.val) :
        /\ lres' = [op |-> "signal_type_element", of |-> lres, out |-> out,
                    panic |-> out.abort]
        /\ UNCHANGED <<builder, calls, op>>
        /\ UNCHANGED exceptLlhd

\* pointer_type_element(ty) of the type made last
PointerTypeElement ==
    /\ ~lres.panic
    /\ lres.op \in {"get_signal_type", "get_pointer_type"}
    /\ \E out \in pointer_type_element(lres.val) :
        /\ lres' = [op |-> "pointer_type_element", of |-> lres, out |-> out,
                    panic |-> out.abort]
        /\ UNCHANGED <<builder, calls, op>>
        /\ UNCHANGED exceptLlhd

-----------------------------------------------------------------------------
(* port_mapping: the inputs *)

\* Option<Name> of an external port, Option<NodeId> of an assignment
NoName == [some |-> FALSE]
Name(n) == [some |-> TRUE, val |-> n]
Unconnected == [some |-> FALSE]
Connected(id) == [some |-> TRUE, id |-> id]

\* the node ids of the assigned expressions: those of the positional and
\* named assignments of the instantiation, and those port_mapping creates
NodeId(kind, at) == [kind |-> kind, at |-> at]

\* the names of ports, and the names assignments are given for
PortNameSet == {"a", "b", "c"}
AssignNames == PortNameSet \cup {"z"}

\* an external port: its place in the port list tells one port from another
ExtPort(index, name) == [id |-> index, name |-> name]

\* the lookup table of a port list: present when all its ports are named
ExtNamed(ext_pos) ==
    IF \A i \in 1..Len(ext_pos) : ext_pos[i].name.some
    THEN [some |-> TRUE,
          map |-> [n \in {ext_pos[i].name.val : i \in 1..Len(ext_pos)} |->
                     (CHOOSE i \in 1..Len(ext_pos) : ext_pos[i].name.val = n) - 1]]
    ELSE [some |-> FALSE]

\* the port lists cx.canonicalize_ports(node) hands out: ports of distinct
\* names, some unnamed
PortLists ==
    { [ext_pos |-> [i \in 1..Len(names) |-> ExtPort(i - 1, names[i])],
       ext_named |-> ExtNamed([i \in 1..Len(names) |-> ExtPort(i - 1, names[i])])] :
        names \in { ns \in SeqUpTo({NoName} \cup {Name(n) : n \in PortNameSet},
                                    MaxExtPorts) :
                     \A i, j \in 1..Len(ns) :
                        (i # j /\ ns[i].some /\ ns[j].some) => ns[i] # ns[j] } }

\* the positional assignments: each with or without an expression
PosParams ==
    { [i \in 1..Len(c) |-> IF c[i] THEN Connected(NodeId("pos", i - 1))
                                   ELSE Unconnected] :
        c \in SeqUpTo(BOOLEAN, MaxPos) }

\* the named assignments: a name, with or without an expression
NamedParams ==
    { [j \in 1..Len(c) |->
          [name |-> c[j][1],
           assign |-> IF c[j][2] THEN Connected(NodeId("named", j - 1))
                                 ELSE Unconnected]] :
        c \in SeqUpTo(AssignNames \X BOOLEAN, MaxNamed) }

-----------------------------------------------------------------------------
(* port_mapping: the query *)

\* the items of pos_iter and named_iter: a port with the assignment's
\* Option<NodeId>, or the error whose diagnostic was emitted
OkItem(ext_port, assign) == [ok |-> TRUE, port |-> ext_port, assign |-> assign]
ErrItem(diag) == [ok |-> FALSE, diag |-> diag]

\* pos_iter that passes over the assignments beyond the last port
pos_iter_lenient(port_list, pos) ==
    [i \in 1..Len(pos) |->
        IF i - 1 < Len(port_list.ext_pos)
        THEN OkItem(port_list.ext_pos[i], pos[i])
        ELSE OkItem(ExtPort(i - 1, NoName), Unconnected)]

\* pos_iter: port_list.ext_pos.get(index) of each positional assignment
pos_iter(port_list, pos) ==
    [i \in 1..Len(pos) |->
        IF i - 1 < Len(port_list.ext_pos)
        THEN OkItem(port_list.ext_pos[i], pos[i])
        ELSE ErrItem("only has ports")]

\* named_iter that takes the named assignments by position
named_iter_bypos(port_list, named) ==
    [j \in 1..Len(named) |->
        IF ~port_list.ext_named.some
        THEN ErrItem("requires positional connections")
        ELSE IF named[j].name \in DOMAIN port_list.ext_named.map
        THEN OkItem(port_list.ext_pos[j], named[j].assign)
        ELSE ErrItem("no port")]

\* named_iter: names.get(&name.value) of each named assignment
named_iter(port_list, named) ==
    [j \in 1..Len(named) |->
        IF ~port_list.ext_named.some
        THEN ErrItem("requires positional connections")
        ELSE IF named[j].name \in DOMAIN port_list.ext_named.map
        THEN OkItem(port_list.ext_pos[port_list.ext_named.map[named[j].name] + 1],
                    named[j].assign)
        ELSE ErrItem("no port")]

\* an entry of the mapping: (Ref(port), assign_id.env(outer_env))
Entry(ext_port, id) == [port |-> ext_port, assign |-> [id |-> id, env |-> "outer"]]

\* the result of the query
Ok(mapping) == [ok |-> TRUE, mapping |-> mapping]
Err(diag) == [ok |-> FALSE, diag |-> diag]

\* filter_map(..).collect() into a Result: the entries of the items that have
\* an expression, up to the first error
RECURSIVE Collect(_)
Collect(items) ==
    IF items = <<>> THEN Ok(<<>>)
    ELSE LET item == Head(items)
         IN  IF ~item.ok THEN Err(item.diag)
             ELSE LET rest == Collect(Tail(items))
                  IN  IF ~rest.ok THEN rest
                      ELSE IF item.assign.some
                      THEN Ok(<<Entry(item.port, item.assign.id)>> \o rest.mapping)
                      ELSE rest

\* the wildcard connection taking every port of the list as unhandled
Wildcard_all(port_list, mapping) ==
    LET unhandled == port_list.ext_pos
    IN  IF \E i \in 1..Len(unhandled) : ~unhandled[i].name.some
        THEN Err("unnamed ports cannot be connected with wildcard")
        ELSE Ok(mapping \o [i \in 1..Len(unhandled) |->
                               Entry(unhandled[i], NodeId("wild", unhandled[i].id))])

\* the wildcard connection: the ports not yet connected, in the order of the
\* port list, each with a new identifier expression of its name
Wildcard(port_list, mapping) ==
    LET handled == {mapping[i].port : i \in 1..Len(mapping)}
        unhandled == SelectSeq(port_list.ext_pos, LAMBDA q : q \notin handled)
    IN  IF \E i \in 1..Len(unhandled) : ~unhandled[i].name.some
        THEN Err("unnamed ports cannot be connected with wildcard")
        ELSE Ok(mapping \o [i \in 1..Len(unhandled) |->
                               Entry(unhandled[i], NodeId("wild", unhandled[i].id))])

\* port_mapping
port_mapping(port_list, pos, named, has_wildcard_port) ==
    LET collected == Collect(pos_iter(port_list, pos) \o named_iter(port_list, named))
    IN  IF ~collected.ok THEN collected
        ELSE IF has_wildcard_port THEN Wildcard(port_list, collected.mapping)
        ELSE collected

-----------------------------------------------------------------------------
(* The state machine of port_mapping *)

PortsInit ==
    pm = [pc |-> "idle"]

\* the query port_mapping of one instantiation
PortMappingQuery ==
    /\ pm.pc = "idle"
    /\ \E port_list \in PortLists, pos \in PosParams, named \in NamedParams,
          has_wildcard_port \in BOOLEAN :
        /\ pm' = [pc |-> "done", port_list |-> port_list, pos |-> pos,
                  named |-> named, has_wildcard_port |-> has_wildcard_port,
                  result |-> port_mapping(port_list, pos, named, has_wildcard_port)]
        /\ UNCHANGED exceptPorts

-----------------------------------------------------------------------------
(* The specifications *)

Init == TypesInit /\ RangeInit /\ PhysInit /\ LlhdInit /\ PortsInit

\* the type model
Next ==
    \/ NewEnum \/ NewInteger \/ NewFloating \/ NewPhysical \/ NewArray \/ NewMarker
    \/ EnumTypeLen \/ EnumTypeLiteral \/ EnumTypeLiterals
    \/ From \/ AsAny \/ Classify \/ Narrow \/ TestMarker \/ Unwrap

Spec == Init /\ [][Next]_vars

\* the ranges
NextRange ==
    \/ WithLeftRight \/ WithLowerUpper \/ Ascending \/ Descending
    \/ IsNull \/ Length \/ HasSubrange
    \/ FmtRange \/ FmtFloating \/ FmtPhysical

SpecRange == Init /\ [][NextRange]_vars

\* a physical type
NextPhys ==
    \/ PushPrimary \/ PushSecondary \/ NewPhysicalType
    \/ PhysUnits \/ PhysPrimaryIndex

SpecPhys == Init /\ [][NextPhys]_vars

\* the LLHD helpers
NextLlhd ==
    \/ AddInput \/ AddOutput \/ BuildEntity \/ BuildProcess
    \/ Counts \/ Input \/ Output \/ Ports
    \/ GetSignalType \/ GetPointerType \/ SignalTypeElement \/ PointerTypeElement

SpecLlhd == Init /\ [][NextLlhd]_vars

\* port_mapping
NextPorts ==
    PortMappingQuery

SpecPorts == Init /\ [][NextPorts]_vars

-----------------------------------------------------------------------------
(* Properties of the type model, checked under Spec *)

\* the consistency rules of the four predicates
Consistent(p) ==
    /\ ~(p.is_scalar /\ p.is_composite)
    /\ p.is_discrete => p.is_scalar
    /\ p.is_numeric => p.is_scalar

\* C1: for every kind, on the concrete value and on its AnyType view,
\* is_scalar and is_composite are never both true, is_discrete implies
\* is_scalar and is_numeric implies is_scalar.
C1_PredicatesConsistent ==
    result.op = "classify" => Consistent(result.conc) /\ Consistent(result.any)

\* a discrete numeric kind has been classified, on the value and on the view
C1_Witness ==
    /\ result.op = "classify"
    /\ result.kind = "Integer"
    /\ result.conc.is_discrete /\ result.conc.is_numeric /\ result.conc.is_scalar
    /\ result.any.is_discrete /\ result.any.is_numeric /\ result.any.is_scalar

\* the classification table of the kinds
Table(k) ==
    [is_scalar |-> k \in {"Enum", "Integer", "Floating", "Physical",
                          "UniversalInteger", "UniversalReal"},
     is_discrete |-> k \in {"Enum", "Integer", "UniversalInteger"},
     is_numeric |-> k \in {"Integer", "Floating", "Physical",
                           "UniversalInteger", "UniversalReal"},
     is_composite |-> k \in {"Array"}]

\* C2: the four predicates answer exactly the table for each kind, and every
\* predicate answers on v.as_any() what it answers on v.
C2_PredicatesMatchTable ==
    result.op = "classify" =>
        /\ result.conc = Table(result.kind)
        /\ result.any = result.conc

\* an enumeration has been classified: discrete and scalar, not numeric
C2_Witness ==
    /\ result.op = "classify"
    /\ result.kind = "Enum"
    /\ result.any.is_discrete /\ ~result.any.is_numeric

\* C3: v.as_any().as_any() has the tag of v.as_any() and references the same
\* value, which is v itself; as_any on a view is the identity.
C3_AsAnyRoundTrip ==
    /\ \A a \in DOMAIN arena :
        LET w == AnyType_from(arena[a], a)
        IN  /\ AnyType_as_any(w).tag = w.tag
            /\ AnyType_as_any(w).ref = w.ref
            /\ w.tag = arena[a].kind
            /\ w.tag \in RefTags => w.ref = a
    /\ result.op = "as_any" => view = result.on

\* the view of an array has been converted again
C3_Witness ==
    /\ result.op = "as_any"
    /\ view.tag = "Array"
    /\ view.ref \in DOMAIN arena
    /\ arena[view.ref].kind = "Array"

\* the variant a checked or unwrapping accessor narrows to
AccessorTag(acc) ==
    CASE acc \in {"as_enum", "unwrap_enum"}         -> "Enum"
      [] acc \in {"as_integer", "unwrap_integer"}   -> "Integer"
      [] acc \in {"as_floating", "unwrap_floating"} -> "Floating"
      [] acc \in {"as_physical", "unwrap_physical"} -> "Physical"
      [] acc \in {"as_array", "unwrap_array"}       -> "Array"

\* the variant a marker test recognises
MarkerTestTag(test) ==
    CASE test = "is_null"              -> "Null"
      [] test = "is_universal_integer" -> "UniversalInteger"
      [] test = "is_universal_real"    -> "UniversalReal"

\* C4: a checked accessor returns the referenced value exactly when the tag
\* of the view is its kind, and None without a panic for every other tag,
\* the markers included; each marker test is true for exactly one tag.
C4_CheckedNarrowing ==
    /\ result.op \in Accessors =>
        /\ pc = "running"
        /\ IF result.on.tag = AccessorTag(result.op)
           THEN /\ result.opt.some
                /\ result.opt.ref = result.on.ref
                /\ arena[result.opt.ref].kind = AccessorTag(result.op)
           ELSE result.opt = None
    /\ result.op \in MarkerTests =>
        /\ pc = "running"
        /\ result.val = (result.on.tag = MarkerTestTag(result.op))
    /\ \A test \in MarkerTests :
        Cardinality({t \in Tags : CallMarkerTest(test, [tag |-> t, ref |-> NoRef])}) = 1

\* the view of a physical type has been narrowed to a physical type
C4_Witness ==
    /\ result.op = "as_physical"
    /\ result.on.tag = "Physical"
    /\ result.opt.some

\* the accessor an unwrap accessor is the unchecked form of
CheckedOf(acc) ==
    CASE acc = "unwrap_enum"     -> "as_enum"
      [] acc = "unwrap_integer"  -> "as_integer"
      [] acc = "unwrap_floating" -> "as_floating"
      [] acc = "unwrap_physical" -> "as_physical"
      [] acc = "unwrap_array"    -> "as_array"

\* C5: an unwrap accessor returns the reference of the checked accessor when
\* the tag matches; when it does not, it panics and returns no value.
C5_UnwrapNarrowing ==
    result.op \in Unwrappers =>
        IF result.on.tag = AccessorTag(result.op)
        THEN /\ ~result.out.panic
             /\ result.out.ref = CallAccessor(CheckedOf(result.op), result.on).ref
             /\ result.out.ref = result.on.ref
             /\ pc = "running"
        ELSE /\ result.out = Panic
             /\ pc = "panicked"

\* the view of an enumeration has been unwrapped as an integer
C5_Witness ==
    /\ result.op = "unwrap_integer"
    /\ result.on.tag = "Enum"
    /\ pc = "panicked"

-----------------------------------------------------------------------------
(* Properties of the ranges, checked under SpecRange *)

\* lower <= upper and such, on the fields of a range
FieldLower(r) == IF r.dir = "To" THEN r.left ELSE r.right
FieldUpper(r) == IF r.dir = "To" THEN r.right ELSE r.left

\* the range of the opposite direction with the same lower and upper bounds
Opposite(r) ==
    with_lower_upper(r.dom, IF r.dir = "To" THEN "Downto" ELSE "To", lower(r), upper(r))

\* C6: A.has_subrange(B) is true exactly when A.lower() <= B.lower() and
\* A.upper() >= B.upper(), and replacing A or B by the range of the opposite
\* direction with the same bounds does not change the result.
C6_HasSubrange ==
    rres.op = "has_subrange" =>
        LET A == rres.self
            B == rres.subrange
        IN  /\ rres.val = (/\ Le(A.dom, FieldLower(A), FieldLower(B))
                           /\ Ge(A.dom, FieldUpper(A), FieldUpper(B)))
            /\ has_subrange(Opposite(A), B) = rres.val
            /\ has_subrange(A, Opposite(B)) = rres.val
            /\ has_subrange(Opposite(A), Opposite(B)) = rres.val

\* a descending range has been found to contain a smaller ascending one
C6_Witness ==
    /\ rres.op = "has_subrange"
    /\ rres.self.dom = "BigInt"
    /\ rres.self.dir = "Downto"
    /\ rres.subrange.dir = "To"
    /\ rres.self.right < rres.subrange.left
    /\ rres.subrange.left < rres.subrange.right
    /\ rres.val

\* C7: is_null() is true exactly when lower() >= upper(), for both
\* directions.
C7_IsNull ==
    rres.op = "is_null" =>
        LET r == rres.self
        IN  /\ r.dir = "To" => rres.val = Ge(r.dom, r.left, r.right)
            /\ r.dir = "Downto" => rres.val = Ge(r.dom, r.right, r.left)

\* a descending range with left < right has been found null
C7_Witness ==
    /\ rres.op = "is_null"
    /\ rres.self.dom = "BigInt"
    /\ rres.self.dir = "Downto"
    /\ rres.self.left < rres.self.right
    /\ rres.val

\* C8: for an integer range, whenever is_null() is true, len() is 0 or
\* lower.
C8_NullHasNoLength ==
    (rres.op = "len" /\ rres.self.dom = "BigInt" /\ is_null(rres.self)) =>
        rres.val <= 0

\* C9: for an integer range, len() is upper() - lower() + 1, signed, and the
\* range of the opposite direction with the same bounds has the same len().
C9_IntegerLen ==
    (rres.op = "len" /\ rres.self.dom = "BigInt") =>
        /\ rres.val = FieldUpper(rres.self) - FieldLower(rres.self) + 1
        /\ len(Opposite(rres.self)) = rres.val

\* the length of a descending integer range has come out negative
C9_Witness ==
    /\ rres.op = "len"
    /\ rres.self.dom = "BigInt"
    /\ rres.self.dir = "Downto"
    /\ rres.val < 0

\* C10, as claimed: for a floating-point range, len() is upper() - lower(),
\* without the + 1.
C10_FloatLenExclusive ==
    (rres.op = "len" /\ rres.self.dom = "f64") =>
        rres.val = Sub("f64", FieldUpper(rres.self), FieldLower(rres.self))

\* C10, amended: for a floating-point range, len() is
\* (upper() + 1.0) - lower(), the inclusive formula of the integer ranges,
\* and NaN when a bound is NaN.
C10_FloatLenInclusive ==
    (rres.op = "len" /\ rres.self.dom = "f64") =>
        LET lo == FieldLower(rres.self)
            up == FieldUpper(rres.self)
        IN  IF lo.nan \/ up.nan
            THEN rres.val = NaN
            ELSE rres.val = F64(up.twice - lo.twice + 2)

\* the length of the floating-point range 0.0 to 1.0 has come out as 2.0
C10_Witness ==
    /\ rres.op = "len"
    /\ rres.self = ascending("f64", F64(0), F64(2))
    /\ rres.val = F64(4)

\* C11: with_lower_upper(d, lo, hi) has dir() = d, lower() = lo and
\* upper() = hi, with left = lo and right = hi when d is ascending and
\* left = hi and right = lo when d is descending; a range built by
\* with_left_right, ascending or descending has lower() and upper() equal to
\* left and right when ascending and to right and left when descending.
C11_Constructors ==
    LET r == rres.self
        c == rres.args
    IN  /\ rres.op = "with_lower_upper" =>
            /\ dir(r) = c.dir /\ lower(r) = c.lower /\ upper(r) = c.upper
            /\ c.dir = "To" => left(r) = c.lower /\ right(r) = c.upper
            /\ c.dir = "Downto" => left(r) = c.upper /\ right(r) = c.lower
        /\ rres.op = "with_left_right" =>
            /\ dir(r) = c.dir /\ left(r) = c.left /\ right(r) = c.right
            /\ c.dir = "To" => lower(r) = c.left /\ upper(r) = c.right
            /\ c.dir = "Downto" => lower(r) = c.right /\ upper(r) = c.left
        /\ rres.op = "ascending" =>
            /\ dir(r) = "To" /\ left(r) = c.left /\ right(r) = c.right
            /\ lower(r) = c.left /\ upper(r) = c.right
        /\ rres.op = "descending" =>
            /\ dir(r) = "Downto" /\ left(r) = c.left /\ right(r) = c.right
            /\ lower(r) = c.right /\ upper(r) = c.left

\* a descending range has been built from a lower and a greater upper bound
C11_Witness ==
    /\ rres.op = "with_lower_upper"
    /\ rres.self.dom = "BigInt"
    /\ rres.args.dir = "Downto"
    /\ rres.args.lower < rres.args.upper
    /\ rres.self.left = rres.args.upper

-----------------------------------------------------------------------------
(* Properties of the enumeration types, checked under Spec *)

\* C12: EnumType::new keeps the literals in input order: len() is the
\* number of literals supplied, literal(i) is the i-th supplied literal for
\* every i < len(), and literals() is the whole sequence in that order.
C12_EnumKeepsOrder ==
    /\ result.op = "EnumType_new" =>
        LET e == arena[result.addr]
            supplied == result.input
        IN  /\ EnumType_len(e) = Len(supplied)
            /\ \A i \in 0 .. Len(supplied) - 1 :
                EnumType_literal(e, i) = [panic |-> FALSE, val |-> supplied[i + 1]]
            /\ EnumType_literals(e) = supplied
    /\ (result.op = "literal" /\ result.pos < EnumType_len(arena[result.addr])) =>
        result.out = [panic |-> FALSE, val |-> EnumType_literals(arena[result.addr])[result.pos + 1]]

\* an enumeration has been built from two different literals
C12_Witness ==
    /\ result.op = "EnumType_new"
    /\ Len(result.input) = 2
    /\ result.input[1] # result.input[2]
    /\ arena[result.addr].kind = "Enum"

\* C13: literal(index) with index >= len(), and so any index on an
\* enumeration without literals, fails fatally and returns no literal.
C13_LiteralOutOfBounds ==
    (result.op = "literal" /\ result.pos >= EnumType_len(arena[result.addr])) =>
        /\ result.out = IndexPanic
        /\ pc = "panicked"

\* literal(0) has been called on an enumeration without literals
C13_Witness ==
    /\ result.op = "literal"
    /\ result.pos = 0
    /\ arena[result.addr].lits = <<>>
    /\ pc = "panicked"

-----------------------------------------------------------------------------
(* Properties of the physical types, checked under SpecPhys *)

\* C14: PhysicalType::new, PhysicalUnit::primary and PhysicalUnit::secondary
\* never fail and validate nothing: whatever the units and the primary index
\* are, units() is the given sequence of units, each as it was given, and
\* primary_index() is the given index.
C14_PhysicalNotValidated ==
    /\ pres.op = "primary" =>
        pres.val = [name |-> pres.name, abs |-> pres.abs, rel |-> <<>>]
    /\ pres.op = "secondary" =>
        pres.val = [name |-> pres.name, abs |-> pres.abs,
                    rel |-> <<pres.rel, pres.rel_to>>]
    /\ pres.op \in {"primary", "secondary"} =>
        /\ phys = NoPhys
        /\ unitVec # <<>>
        /\ unitVec[Len(unitVec)] = pres.val
    /\ pres.op = "PhysicalType_new" =>
        /\ phys # NoPhys
        /\ PhysicalType_units(phys) = pres.units
        /\ PhysicalType_primary_index(phys) = pres.primary
        /\ phys.range = pres.range
    /\ phys # NoPhys => PhysicalType_units(phys) = unitVec
    /\ pres.op = "units" => pres.val = unitVec
    /\ pres.op = "primary_index" => pres.val = phys.primary

\* a physical type has been built with a primary index beyond its units,
\* two units without a relative link, the first with abs # 1
C14_Witness ==
    /\ pres.op = "PhysicalType_new"
    /\ Len(pres.units) = 2
    /\ pres.primary >= Len(pres.units)
    /\ pres.units[1].rel = <<>> /\ pres.units[2].rel = <<>>
    /\ pres.units[1].abs # 1
    /\ PhysicalType_primary_index(phys) = pres.primary

-----------------------------------------------------------------------------
(* Properties of the renderings, checked under SpecRange *)

\* the names of the units, in sequence order, separated by ", "
RECURSIVE JoinNames(_)
JoinNames(us) ==
    IF us = <<>> THEN ""
    ELSE IF Len(us) = 1 THEN us[1].name
    ELSE us[1].name \o ", " \o JoinNames(Tail(us))

\* the rendering a range is to have: left, the keyword, right
Rendered(r) ==
    T_fmt(r.dom, r.left) \o (IF r.dir = "To" THEN " to " ELSE " downto ")
        \o T_fmt(r.dom, r.right)

\* C15: a range renders as its left bound, 'to' or 'downto', and its right
\* bound, so with_lower_upper(descending, 0, 42) renders as '42 downto 0'; a
\* floating type renders as its range; a physical type renders as its range,
\* ' units (', the unit names in sequence order separated by ', ', and ')'.
C15_Rendering ==
    /\ rres.op = "fmt" => rres.val = Rendered(rres.self)
    /\ rres.op = "fmt_floating" => rres.val = Rendered(rres.self.range)
    /\ rres.op = "fmt_physical" =>
        rres.val = Rendered(rres.self.range) \o " units ("
                       \o JoinNames(rres.self.units) \o ")"
    /\ (rres.op = "fmt" /\ rres.self = with_lower_upper("BigInt", "Downto", 0, 2)) =>
        rres.val = "2 downto 0"
    /\ Range_fmt(with_lower_upper("BigInt", "Downto", 0, 42)) = "42 downto 0"

\* a descending physical type with three units has been rendered
C15_Witness ==
    /\ rres.op = "fmt_physical"
    /\ rres.self.range = with_lower_upper("BigInt", "Downto", 0, 2)
    /\ rres.val = "2 downto 0 units (fs, ps, ns)"

-----------------------------------------------------------------------------
(* The ports of a built op: C16, C17 *)

\* the calls of one direction among the add_input and add_output calls made
CallsOf(made, d) == SelectSeq(made, LAMBDA c : c.dir = d)

\* the types passed by a sequence of calls, in their order
TypesOf(made) == [i \in 1..Len(made) |-> made[i].ty]

\* the values of a sequence of calls that returned
Vals(outs) == [i \in 1..Len(outs) |-> outs[i].val]

\* C16: after any interleaved add_input and add_output calls, the op built by
\* build_entity or build_process has as block arguments the types of the
\* inputs in insertion order followed by the types of the outputs in insertion
\* order, its 'ins' attribute is the number of add_input calls, num_inputs()
\* and num_outputs() are the numbers of add_input and add_output calls, and
\* num_inputs() <= num_ports().
C16_BuiltPorts ==
    /\ lres.op \in {"build_entity", "build_process"} =>
        LET ins == CallsOf(lres.calls, "in")
            outs == CallsOf(lres.calls, "out")
        IN  /\ op.block = TypesOf(ins) \o TypesOf(outs)
            /\ op.attrs.ins = Len(ins)
            /\ num_inputs(op) = Len(ins)
            /\ num_outputs(op) = Len(outs)
            /\ num_inputs(op) <= num_ports(op)
    /\ lres.op = "counts" => lres.num_inputs <= lres.num_ports

\* an entity built after add_output, add_input, add_output of differing types
C16_Witness ==
    /\ lres.op = "build_entity"
    /\ Len(lres.calls) = 3
    /\ lres.calls[1].dir = "out" /\ lres.calls[2].dir = "in"
    /\ lres.calls[3].dir = "out"
    /\ lres.calls[1].ty # lres.calls[2].ty
    /\ op.block[1] = lres.calls[2].ty

\* C17: for an op with n ports of which k are inputs, input(i) is port(i) when
\* i < k and fails its assertion otherwise, output(i) is port(k + i) when
\* i < n - k and fails its assertion otherwise, and input_ports() followed by
\* output_ports() is ports(), in order, each port once.
C17_InputsThenOutputs ==
    LET n == Len(op.block)
        k == op.attrs.ins
    IN  /\ lres.op = "input" =>
            IF lres.index < k
            THEN ~lres.panic /\ lres.out.val = port(op, lres.index)
            ELSE lres.panic
        /\ lres.op = "output" =>
            IF lres.index < n - k
            THEN ~lres.panic /\ lres.out.val = port(op, k + lres.index)
            ELSE lres.panic
        /\ lres.op = "ports" =>
            /\ ~lres.panic
            /\ Vals(lres.input_ports) \o Vals(lres.output_ports) = lres.ports
            /\ Len(lres.ports) = n
            /\ \A i, j \in 1..n : i # j => lres.ports[i] # lres.ports[j]

\* the first output of an op with one input and one output is port 1
C17_Witness ==
    /\ lres.op = "output"
    /\ lres.index = 0
    /\ op # NoOp
    /\ op.attrs.ins = 1
    /\ Len(op.block) = 2
    /\ ~lres.panic
    /\ lres.out.val.arg = 1

-----------------------------------------------------------------------------
(* Pointer types: C18 *)

\* C18: get_pointer_type(e) creates a pointer type with element e:
\* pointer_type_element(get_pointer_type(e)) = e, and the result is a pointer
\* type, not the signal type that get_signal_type(e) creates.
C18_PointerType ==
    /\ lres.op = "get_pointer_type" =>
        /\ lres.val.kind = "ptr"
        /\ lres.val # get_signal_type(lres.element)
    /\ (lres.op = "pointer_type_element" /\ lres.of.op = "get_pointer_type") =>
        /\ ~lres.out.abort
        /\ lres.out.val = lres.of.element

-----------------------------------------------------------------------------
(* The port mapping of an instantiation: C19, C20 *)

\* the places 1..n, in order
Places(n) == [i \in 1..n |-> i]

\* the places of the assignments that have an expression
ConnectedPos == SelectSeq(Places(Len(pm.pos)), LAMBDA i : pm.pos[i].some)
ConnectedNamed ==
    SelectSeq(Places(Len(pm.named)), LAMBDA j : pm.named[j].assign.some)

\* the external port of a name
PortOfName(n) ==
    CHOOSE q \in {pm.port_list.ext_pos[i] : i \in 1..Len(pm.port_list.ext_pos)} :
        q.name = Name(n)

\* the explicit entries the claim describes: the connected positional
\* assignments, the i-th on the i-th port, then the connected named
\* assignments, each on the port of its name
ExplicitEntries ==
    [k \in 1..Len(ConnectedPos) |->
        [port |-> pm.port_list.ext_pos[ConnectedPos[k]],
         assign |-> [id |-> pm.pos[ConnectedPos[k]].id, env |-> "outer"]]]
    \o
    [k \in 1..Len(ConnectedNamed) |->
        [port |-> PortOfName(pm.named[ConnectedNamed[k]].name),
         assign |-> [id |-> pm.named[ConnectedNamed[k]].assign.id, env |-> "outer"]]]

\* the ports the explicit entries leave out, in the order of the port list
LeftOut ==
    SelectSeq(pm.port_list.ext_pos,
              LAMBDA q : \A k \in 1..Len(ExplicitEntries) : ExplicitEntries[k].port # q)

\* C19: on success the result lists the connected positional assignments in
\* positional order, the i-th bound to the i-th external port, then the
\* connected named assignments in source order, each bound to the port of
\* that name, then the ports added for the wildcard in port-list order; each
\* explicit entry carries its assigned expression in the outer parameter
\* environment.
C19_MappingOrder ==
    (pm.pc = "done" /\ pm.result.ok) =>
        LET mapping == pm.result.mapping
            n == Len(ExplicitEntries)
        IN  /\ Len(mapping) >= n
            /\ SubSeq(mapping, 1, n) = ExplicitEntries
            /\ IF pm.has_wildcard_port
               THEN /\ Len(mapping) = n + Len(LeftOut)
                    /\ \A k \in 1..Len(LeftOut) : mapping[n + k].port = LeftOut[k]
               ELSE Len(mapping) = n

\* a connected positional assignment, a connected named assignment and a port
\* added for the wildcard, in this order
C19_Witness ==
    /\ pm.pc = "done"
    /\ pm.result.ok
    /\ pm.has_wildcard_port
    /\ Len(pm.result.mapping) = 3
    /\ pm.result.mapping[1].assign.id.kind = "pos"
    /\ pm.result.mapping[2].assign.id.kind = "named"
    /\ pm.result.mapping[3].assign.id.kind = "wild"
    /\ pm.result.mapping[2].port.id = 2
    /\ pm.result.mapping[3].port.id = 1

\* some positional assignment lies beyond the last external port
PosBeyondPorts == Len(pm.pos) > Len(pm.port_list.ext_pos)

\* some named assignment names no port of the node
NamesNoPort ==
    \E j \in 1..Len(pm.named) :
        \A i \in 1..Len(pm.port_list.ext_pos) :
            pm.port_list.ext_pos[i].name # Name(pm.named[j].name)

\* a named assignment is given for a node that takes positional ones only
NamedForPositionalOnly == Len(pm.named) > 0 /\ ~pm.port_list.ext_named.some

\* C20: port_mapping returns an error and no mapping whenever some positional
\* index is at or beyond the number of external ports, some named assignment
\* names a port that does not exist, or a named assignment is given for a
\* node that has no name table, also when the offending assignment has no
\* expression; without a wildcard it returns a mapping in every other case.
C20_Errors ==
    pm.pc = "done" =>
        /\ (PosBeyondPorts \/ NamesNoPort \/ NamedForPositionalOnly) =>
            /\ ~pm.result.ok
            /\ "mapping" \notin DOMAIN pm.result
        /\ (~(PosBeyondPorts \/ NamesNoPort \/ NamedForPositionalOnly)
              /\ ~pm.has_wildcard_port) =>
            /\ pm.result.ok
            /\ "mapping" \in DOMAIN pm.result

\* a positional assignment without expression beyond the only port, no other
\* fault: an error
C20_Witness ==
    /\ pm.pc = "done"
    /\ Len(pm.port_list.ext_pos) = 1
    /\ Len(pm.pos) = 2
    /\ ~pm.pos[2].some
    /\ pm.named = <<>>
    /\ ~pm.has_wildcard_port
    /\ ~pm.result.ok
    /\ pm.result.diag = "only has ports"

-----------------------------------------------------------------------------
(* The wildcard connection: C21 *)

\* the port q is given an expression by a positional or a named assignment
HasExplicit(q) ==
    \/ \E i \in 1..Len(pm.pos) : pm.pos[i].some /\ q.id = i - 1
    \/ \E j \in 1..Len(pm.named) :
        pm.named[j].assign.some /\ q.name = Name(pm.named[j].name)

\* the entries of the mapping on the port q
EntriesOn(q) ==
    SelectSeq(pm.result.mapping, LAMBDA e : e.port = q)

\* C21: when port_mapping is called with has_wildcard_port set and succeeds,
\* every external port of the node has an entry in the mapping, and a port
\* that already has an entry from a positional or named assignment gets no
\* additional wildcard entry; if some port with no entry is unnamed,
\* port_mapping returns an error instead of a mapping.
C21_WildcardCoverage ==
    (pm.pc = "done" /\ pm.has_wildcard_port) =>
        LET ext_pos == pm.port_list.ext_pos
        IN  /\ pm.result.ok =>
                \A i \in 1..Len(ext_pos) :
                    LET on == EntriesOn(ext_pos[i])
                    IN  /\ Len(on) >= 1
                        /\ HasExplicit(ext_pos[i]) =>
                            \A k \in 1..Len(on) : on[k].assign.id.kind # "wild"
                        /\ ~HasExplicit(ext_pos[i]) =>
                            /\ Len(on) = 1
                            /\ on[1].assign.id = NodeId("wild", i - 1)
            /\ (\E i \in 1..Len(ext_pos) :
                    ~ext_pos[i].name.some /\ ~HasExplicit(ext_pos[i])) =>
                /\ ~pm.result.ok
                /\ "mapping" \notin DOMAIN pm.result

\* two ports, the first connected by position, the second by the wildcard
C21_Witness ==
    /\ pm.pc = "done"
    /\ pm.has_wildcard_port
    /\ pm.result.ok
    /\ Len(pm.port_list.ext_pos) = 2
    /\ Len(pm.pos) = 1 /\ pm.pos[1].some
    /\ pm.named = <<>>
    /\ Len(pm.result.mapping) = 2
    /\ pm.result.mapping[1].port.id = 0
    /\ pm.result.mapping[2] = Entry(pm.port_list.ext_pos[2], NodeId("wild", 1))

====
